---- MODULE Spec2Model ----
(***************************************************************************)
(* Git Log Viewer: the materialized commit sequence of glv.ui.history      *)
(* (History: fill_up, get_line, toggle_fold, search) over the commit       *)
(* classifier and first-parent walker of pygit_viewer.line.                *)
(*                                                                         *)
(* Row indices, the cursor and line numbers are 0-based as in the Python   *)
(* code; a TLA+ sequence is 1-based, so row i of a list s is s[i + 1].     *)
(***************************************************************************)
EXTENDS Integers, Sequences, FiniteSets, TLC

VARIABLES
    commit_list,      \* History.commit_list: the materialized rows
    log_entry_list,   \* History.log_entry_list: one LogEntry per row
    line_count,       \* History.line_count
    date_max_len,     \* History.date_max_len
    name_max_len,     \* History.name_max_len
    cursor_y,         \* History.cursor_position.y
    search_state,     \* History.search_state
    _search_thread,   \* History._search_thread: NoThread or a thread id
    STATUS,           \* glv.ui.status.STATUS: the status message, or NoStatus
    threads,          \* the search threads: position and locals of each
    last              \* the last operation of the control thread and its result

vars == <<commit_list, log_entry_list, line_count, date_max_len, name_max_len,
          cursor_y, search_state, _search_thread, STATUS, threads, last>>

-----------------------------------------------------------------------------
(* Bounds of the model *)

ScreenHeight == 2     \* utils.screen_height(): rows fetched per page
MaxAmount == 3        \* largest amount / line number passed by the caller
MaxRows == 10         \* an unfold is explored only while the list stays this short
MaxLineCount == 19    \* an unfold is explored only while line_count stays this small
MaxGoto == 3          \* goto_line is called with -MaxGoto .. MaxLineCount + MaxGoto
MaxSearches == 2      \* number of apply_search calls explored

-----------------------------------------------------------------------------
(* The repository: a commit graph as the git-access library presents it.   *)
(*                                                                         *)
(*      8 -- 7 -- 5 ------------ 1   first-parent line of HEAD             *)
(*           |     \            /|                                         *)
(*           6      4 -- 2 -- 9  |   4 merges 3 into the feature line 2, 9 *)
(*                   \           |                                         *)
(*                    3 ---------+   6 is the root of an unrelated history *)
(*                                                                         *)
(*      10 is the tip of another branch: an octopus merge of 8, 3 and 6.   *)

\* no commit: the None a lookup returns (an oid is 1 or more)
NoCommit == 0
HEAD == 8

\* git_commit.parents, first parent first
parents(c) ==
    CASE c = 1 -> <<>>
      [] c = 2 -> <<9>>
      [] c = 3 -> <<1>>
      [] c = 4 -> <<2, 3>>
      [] c = 5 -> <<1, 4>>
      [] c = 6 -> <<>>
      [] c = 7 -> <<5, 6>>
      [] c = 8 -> <<7>>
      [] c = 9 -> <<1>>
      [] c = 10 -> <<8, 3, 6>>

Range(s) == {s[i] : i \in 1..Len(s)}

\* a commit and everything reachable from it
RECURSIVE Ancestors(_)
Ancestors(c) == {c} \cup UNION {Ancestors(p) : p \in Range(parents(c))}

\* pygit2 Repository.merge_base: the best common ancestor, or none
git_merge_base(a, b) ==
    LET common == Ancestors(a) \cap Ancestors(b)
    IN  IF common = {} THEN NoCommit
        ELSE CHOOSE m \in common : \A o \in common : o \in Ancestors(m)

\* Repo.merge_base
merge_base(oid1, oid2) == git_merge_base(oid1, oid2)

\* pygit2 walk(start) with simplify_first_parent()
RECURSIVE first_parent_line(_)
first_parent_line(c) ==
    IF parents(c) = <<>> THEN <<c>>
    ELSE <<c>> \o first_parent_line(parents(c)[1])

\* ... and hide(end): end and its ancestors are left out
git_walk(start, end) ==
    LET hidden == IF end = NoCommit THEN {} ELSE Ancestors(end)
    IN  SelectSeq(first_parent_line(start), LAMBDA c : c \notin hidden)

(* Display metadata of a commit. A text is a sequence of characters. *)
short_id(c) ==
    CASE c = 1 -> <<"1", "a">>
      [] c = 2 -> <<"2", "b">>
      [] c = 3 -> <<"3", "c">>
      [] c = 4 -> <<"4", "d">>
      [] c = 5 -> <<"5", "e">>
      [] c = 6 -> <<"6", "f">>
      [] c = 7 -> <<"7", "0">>
      [] c = 8 -> <<"8", "9">>
      [] c = 9 -> <<"9", "c">>
      [] c = 10 -> <<"a", "7">>

subject(c) ==
    CASE c = 1 -> <<"i", "n", "i", "t">>
      [] c = 2 -> <<"t", "w", "o">>
      [] c = 3 -> <<"t", "r", "y">>
      [] c = 4 -> <<"j", "o", "i", "n">>
      [] c = 5 -> <<"F", "i", "x">>
      [] c = 6 -> <<"l", "i", "b">>
      [] c = 7 -> <<"s", "u", "b">>
      [] c = 8 -> <<"f", "i", "x">>
      [] c = 9 -> <<"o", "n", "e">>
      [] c = 10 -> <<"a", "l", "l">>

author_name(c) ==
    IF c \in {2, 3, 4, 9} THEN <<"b", "o", "b", "b", "y">> ELSE <<"a", "n", "n">>

branches(c) ==
    CASE c = 8 -> {<<"m", "a", "i", "n">>}
      [] c = 5 -> {<<"d", "e", "v">>}
      [] c = 4 -> {<<"h", "o", "t">>, <<"w", "i", "p">>}
      [] OTHER -> {}

\* LogEntry.author_rel_date: the relative date as text
author_rel_date(c) ==
    IF c \in {1, 6} THEN <<"2", " ", "y", "r">> ELSE <<"3", " ", "h">>

-----------------------------------------------------------------------------
(* pygit_viewer.line: the classifier and the walker *)

NoParent == [oid |-> NoCommit, level |-> -1, kind |-> "None"]

Foldable == {"Merge", "Octopus", "Subtree"}

\* isinstance(commit, Foldable)
isFoldable(commit) == commit.kind \in Foldable

\* the mutant of _calculate_level: every record is one level below the
\* record before it, foldable or not
_calculate_level_deeper(parent) ==
    IF parent # NoParent
    THEN parent.level + 1
    ELSE 1

_calculate_level(parent) ==
    IF parent # NoParent
    THEN IF isFoldable(parent) THEN parent.level + 1 ELSE parent.level
    ELSE 1

\* the mutant of kind_of: the merge base is not looked up
kind_of_no_lookup(git_commit) ==
    LET p == parents(git_commit) IN
    IF Len(p) = 0 THEN "Initial"
    ELSE IF Len(p) = 1 THEN "Regular"
    ELSE IF Len(p) = 2 THEN "Merge"
    ELSE "Octopus"

\* the class to_commit picks
kind_of(git_commit) ==
    LET p == parents(git_commit) IN
    IF Len(p) = 0 THEN "Initial"
    ELSE IF Len(p) = 1 THEN "Regular"
    ELSE IF Len(p) = 2 /\ merge_base(p[1], p[2]) = NoCommit THEN "Subtree"
    ELSE IF Len(p) = 2 THEN "Merge"
    ELSE "Octopus"

to_commit(git_commit, parent) ==
    LET level == IF parent # NoParent THEN _calculate_level(parent) ELSE 1
    IN  [oid |-> git_commit, level |-> level, kind |-> kind_of(git_commit)]

\* Repo.walker: every record is built with the previous record as parent
RECURSIVE walker_records(_, _)
walker_records(oids, parent) ==
    IF oids = <<>> THEN <<>>
    ELSE LET tmp == to_commit(Head(oids), parent)
         IN  <<tmp>> \o walker_records(Tail(oids), tmp)

walker(start, end, parent) == walker_records(git_walk(start, end), parent)

\* Foldable.child_log, and its override Subtree.child_log
child_log(commit) ==
    IF commit.kind = "Subtree"
    THEN walker(commit.oid, NoCommit, commit)
    ELSE LET p == parents(commit.oid)
         IN  walker(p[2], merge_base(p[1], p[2]), commit)

-----------------------------------------------------------------------------
(* glv.commit and glv.Repo, which glv.ui.history imports *)

\* glv.commit.child_history(working_dir, commit): the side-branch walk
child_history(commit) == child_log(commit)

\* Commit.is_merge: the commit is of a foldable kind
is_merge(commit) == isFoldable(commit)

\* glv.commit.is_folded(commit_list, pos): no deeper row follows row pos
is_folded(list, pos) ==
    ~ (pos + 2 <= Len(list) /\ list[pos + 2].level > list[pos + 1].level)

\* Repo.iter_commits(rev_range, skip, max_count, paths): a page of the
\* first-parent walk of the revision; its records are top-level (level 0)
top_level_walk == first_parent_line(HEAD)

iter_commits(skip, max_count) ==
    LET line == top_level_walk
        from == skip + 1
        to == IF skip + max_count < Len(line) THEN skip + max_count ELSE Len(line)
    IN  [i \in 1..(IF to >= from THEN to - from + 1 ELSE 0) |->
            [oid |-> line[from + i - 1], level |-> 0,
             kind |-> kind_of(line[from + i - 1])]]

\* Repo.count_commits(revision): every commit reachable from the revision
count_commits == Cardinality(Ancestors(HEAD))

\* LogEntry(commit, working_dir, search_state)
LogEntry(commit) == [commit |-> commit]

-----------------------------------------------------------------------------
(* glv.ui.history.History: the operations on the materialized sequence.    *)
(* h is the part of a History the fetch and fold code reads and writes.    *)

Max(a, b) == IF a > b THEN a ELSE b

\* list.insert(pos, x): a position past the end appends
Insert(list, pos, x) ==
    LET k == IF pos > Len(list) THEN Len(list) ELSE pos
    IN  SubSeq(list, 1, k) \o <<x>> \o SubSeq(list, k + 1, Len(list))

\* the mutant of Delete: the row after list[pos] is deleted
Delete_next(list, pos) == SubSeq(list, 1, pos + 1) \o SubSeq(list, pos + 3, Len(list))

\* del list[pos]
Delete(list, pos) == SubSeq(list, 1, pos) \o SubSeq(list, pos + 2, Len(list))

History ==
    [commit_list |-> commit_list, log_entry_list |-> log_entry_list,
     line_count |-> line_count, date_max_len |-> date_max_len,
     name_max_len |-> name_max_len]

\* the column-width aggregates after one more entry
widen(h, entry) ==
    [h EXCEPT
        !.date_max_len = Max(@, Len(author_rel_date(entry.commit.oid))),
        !.name_max_len = Max(@, Len(author_name(entry.commit.oid)))]

\* the mutant of delete_row: the entry of the deleted commit is kept
delete_row_commit_only(h, pos) ==
    [h EXCEPT !.commit_list = Delete(@, pos)]

\* History._fold, lines 213-214: the row goes from both lists
delete_row(h, pos) ==
    [h EXCEPT !.commit_list = Delete(@, pos),
              !.log_entry_list = Delete(@, pos)]

\* History._fold: the loop runs over a copy of commit_list[pos:]
RECURSIVE _fold_loop(_, _, _, _)
_fold_loop(h, pos, commit, rest) ==
    IF rest = <<>> THEN h
    ELSE IF commit.level < Head(rest).level
         THEN _fold_loop(delete_row(h, pos), pos, commit, Tail(rest))
         ELSE h

\* _fold with the level test weakened to <=
_fold_le(h, pos, commit) ==
    LET rest == SubSeq(h.commit_list, pos + 1, Len(h.commit_list))
        n == CHOOSE n \in 0..Len(rest) :
                /\ \A j \in 1..n : commit.level <= rest[j].level
                /\ n < Len(rest) => commit.level > rest[n + 1].level
    IN  [h EXCEPT !.commit_list = SubSeq(@, 1, pos) \o SubSeq(@, pos + n + 1, Len(@)),
                  !.log_entry_list = SubSeq(@, 1, pos) \o SubSeq(@, pos + n + 1, Len(@))]

_fold(h, pos, commit) ==
    _fold_loop(h, pos, commit, SubSeq(h.commit_list, pos + 1, Len(h.commit_list)))

\* _unfold with the insertion cursor never advanced
unfold_position_fixed(line_number, index) == line_number + 1

\* History._unfold: where the index-th yielded record is inserted
unfold_position(line_number, index) == line_number + index

\* idx is the loop's running index; it starts at 1
RECURSIVE _unfold_loop(_, _, _, _)
_unfold_loop(h, line_number, idx, children) ==
    IF children = <<>> THEN [h EXCEPT !.line_count = @ + idx]
    ELSE LET c == Head(children)
             entry == LogEntry(c)
             h1 == widen(h, entry)
             h2 == [h1 EXCEPT
                      !.commit_list = Insert(@, unfold_position(line_number, idx), c),
                      !.log_entry_list = Insert(@, unfold_position(line_number, idx), entry)]
         IN  _unfold_loop(h2, line_number, idx + 1, Tail(children))

_unfold(h, line_number, commit) ==
    _unfold_loop(h, line_number, 1, child_history(commit))

\* History.toggle_fold, for a line_number inside the list
toggle_branch(h, line_number) ==
    LET commit == h.commit_list[line_number + 1]
    IN  IF ~ is_merge(commit) THEN "return"
        ELSE IF is_folded(h.commit_list, line_number) THEN "unfold"
        ELSE "fold"

toggle_fold(h, line_number) ==
    LET commit == h.commit_list[line_number + 1]
        branch == toggle_branch(h, line_number)
    IN  IF branch = "return" THEN h
        ELSE IF branch = "unfold" THEN _unfold(h, line_number, commit)
        ELSE _fold(h, line_number + 1, commit)

\* fill_up with nested rows counted into the skip
fill_up_skip_all(list) == Len(list)

\* History.fill_up: the skip it passes to iter_commits
fill_up_skip(list) == Len(SelectSeq(list, LAMBDA x : x.level = 0))

\* fill_up with zero let through
fill_up_rejects_negative(amount) == amount < 0

\* History.fill_up: the amounts it rejects
fill_up_rejects(amount) == amount <= 0

\* History.fill_up: the fetch ...
fill_up_fetch(h, amount) == iter_commits(fill_up_skip(h.commit_list), amount)

\* ... and the loop that appends the fetched commits
RECURSIVE fill_up_append(_, _)
fill_up_append(h, commits) ==
    IF commits = <<>> THEN h
    ELSE LET commit == Head(commits)
             entry == LogEntry(commit)
             h1 == [h EXCEPT !.commit_list = Append(@, commit),
                             !.log_entry_list = Append(@, entry)]
         IN  fill_up_append(widen(h1, entry), Tail(commits))

\* fill_up returning the amount asked for
fill_up_returns_amount(h, amount) ==
    [h |-> fill_up_append(h, fill_up_fetch(h, amount)), ret |-> amount]

\* History.fill_up(amount) for an amount it accepts: the new state and the
\* returned count
fill_up(h, amount) ==
    LET commits == fill_up_fetch(h, amount)
    IN  [h |-> fill_up_append(h, commits), ret |-> Len(commits)]

\* History.get_line: the state after its fill_up, if it makes one
get_line(h, line_number) ==
    LET length == Len(h.commit_list)
    IN  IF length - 1 < line_number
        THEN fill_up(h, line_number - length + 1).h
        ELSE h

-----------------------------------------------------------------------------
(* The state after History.__init__ *)

\* _search_thread = None (a thread id is 1 or more)
NoThread == 0
\* STATUS after clear(): no message
NoStatus == <<>>
NoSearch == [text |-> <<>>, direction |-> "None"]

ThreadIds == 1..MaxSearches

NewThread ==
    [pc |-> "new", search_state |-> NoSearch, include |-> TRUE,
     index |-> -1, new_position |-> -1, commits |-> <<>>,
     marked_stopped |-> FALSE,
     \* what the thread has done so far, for the properties
     start_y |-> -1, cancelled |-> FALSE, tested |-> NoCommit, found |-> FALSE]

EmptyHistory ==
    [commit_list |-> <<>>, log_entry_list |-> <<>>,
     line_count |-> count_commits, date_max_len |-> 0, name_max_len |-> 0]

NoOp ==
    [op |-> "init", arg |-> -1, pre |-> EmptyHistory, ret |-> -1, err |-> "",
     round_trip |-> FALSE, origin |-> <<>>, got |-> NoParent]

\* the variables of h take the values of the record h1
SetHistory(h1) ==
    /\ commit_list' = h1.commit_list
    /\ log_entry_list' = h1.log_entry_list
    /\ line_count' = h1.line_count
    /\ date_max_len' = h1.date_max_len
    /\ name_max_len' = h1.name_max_len

Init ==
    LET h0 == fill_up(EmptyHistory, ScreenHeight).h IN
    /\ commit_list = h0.commit_list
    /\ log_entry_list = h0.log_entry_list
    /\ line_count = h0.line_count
    /\ date_max_len = h0.date_max_len
    /\ name_max_len = h0.name_max_len
    /\ cursor_y = 0
    /\ search_state = NoSearch
    /\ _search_thread = NoThread
    /\ STATUS = NoStatus
    /\ threads = [t \in ThreadIds |-> NewThread]
    /\ last = NoOp

-----------------------------------------------------------------------------
(* The control thread: calls of fill_up, get_line and toggle_fold *)

searchVars == <<cursor_y, search_state, _search_thread, STATUS, threads>>

\* fill_up(amount), called directly
FillUp(amount) ==
    /\ IF fill_up_rejects(amount)
       THEN /\ UNCHANGED <<commit_list, log_entry_list, line_count,
                           date_max_len, name_max_len>>
            /\ last' = [NoOp EXCEPT !.op = "fill_up", !.arg = amount,
                                    !.pre = History, !.err = "ValueError"]
       ELSE LET r == fill_up(History, amount) IN
            /\ SetHistory(r.h)
            /\ last' = [NoOp EXCEPT !.op = "fill_up", !.arg = amount,
                                    !.pre = History, !.ret = r.ret]
    /\ UNCHANGED searchVars

\* get_line(line_number), called by the renderer for a line below line_count
GetLine(line_number) ==
    /\ line_number < line_count
    /\ LET h1 == get_line(History, line_number) IN
       /\ SetHistory(h1)
       /\ last' = [NoOp EXCEPT
                     !.op = "get_line", !.arg = line_number, !.pre = History,
                     !.err = IF line_number < Len(h1.commit_list)
                             THEN "" ELSE "blank"]
    /\ UNCHANGED searchVars

\* toggle_fold(line_number); a line_number past the end raises IndexError
ToggleFold(line_number) ==
    /\ IF line_number >= Len(commit_list)
       THEN /\ UNCHANGED <<commit_list, log_entry_list, line_count,
                           date_max_len, name_max_len>>
            /\ last' = [NoOp EXCEPT !.op = "toggle_fold", !.arg = line_number,
                                    !.pre = History, !.err = "IndexError"]
       ELSE LET h1 == toggle_fold(History, line_number) IN
            /\ Len(h1.commit_list) <= MaxRows
            /\ h1.line_count <= MaxLineCount
            /\ SetHistory(h1)
            /\ last' = [NoOp EXCEPT
                          !.op = toggle_branch(History, line_number),
                          !.arg = line_number, !.pre = History,
                          !.round_trip = /\ last.op = "unfold"
                                         /\ last.arg = line_number,
                          !.origin = IF last.op = "unfold" /\ last.arg = line_number
                                     THEN last.pre.commit_list ELSE <<>>]
    /\ UNCHANGED searchVars

Next ==
    \/ \E amount \in -1..MaxAmount : FillUp(amount)
    \/ \E line_number \in 0..MaxAmount : GetLine(line_number)
    \/ \E line_number \in 0..MaxRows : ToggleFold(line_number)

Spec == Init /\ [][Next]_vars

-----------------------------------------------------------------------------
(* The cursor operations of HistoryControl *)

historyVars == <<commit_list, log_entry_list, line_count, date_max_len, name_max_len>>

move_cursor_down ==
    /\ cursor_y + 1 < line_count
    /\ cursor_y' = cursor_y + 1
    /\ UNCHANGED <<historyVars, search_state, _search_thread, STATUS, threads, last>>

move_cursor_up ==
    /\ cursor_y > 0
    /\ cursor_y' = cursor_y - 1
    /\ UNCHANGED <<historyVars, search_state, _search_thread, STATUS, threads, last>>

\* get_line(line_number) of the renderer, for a line below line_count
Render(line_number) ==
    /\ line_number < line_count
    /\ SetHistory(get_line(History, line_number))
    /\ UNCHANGED <<cursor_y, search_state, _search_thread, STATUS, threads, last>>

-----------------------------------------------------------------------------
(* History.apply_search and History.search *)

\* list[i] raises IndexError
index_error(list, i) == i >= Len(list) \/ i < 0 - Len(list)

\* list[i] otherwise: a negative i counts from the end
item(list, i) == IF i < 0 THEN list[Len(list) + i + 1] ELSE list[i + 1]

\* needle in haystack, for texts
contains(haystack, needle) ==
    \E k \in 0..(Len(haystack) - Len(needle)) :
        SubSeq(haystack, k + 1, k + Len(needle)) = needle

\* the test of the forward loop
match_forward(needle, commit) ==
    \/ contains(short_id(commit.oid), needle)
    \/ contains(subject(commit.oid), needle)
    \/ contains(author_name(commit.oid), needle)
    \/ \E haystack \in branches(commit.oid) : contains(haystack, needle)

\* the test of the backward loop
match_backward(needle, commit) ==
    \/ contains(short_id(commit.oid), needle)
    \/ contains(subject(commit.oid), needle)
    \/ contains(author_name(commit.oid), needle)

\* the needles searched for: one found in a branch label only, one found in
\* two subjects, one found nowhere
Needles == {<<"d", "e">>, <<"i", "x">>, <<"z">>}

SearchStates == [text : Needles, direction : {"FORWARD", "BACKWARD"}]

\* the needles of the searches that run beside each other
RacingStates == [text : {<<"i", "x">>, <<"z">>}, direction : {"FORWARD", "BACKWARD"}]

\* a thread is between the start and the end of History.search
running(t) == threads[t].pc \notin {"new", "done", "crashed"}

\* Thread.is_alive()
is_alive(t) == running(t) /\ ~ threads[t].marked_stopped

\* apply_search(search_state, include_current_position): Thread._stop() on a
\* live thread either raises (swallowed) or, with assertions compiled out,
\* marks the thread object stopped; the thread itself runs on in both cases.
\* The new thread is the next Thread object.
ApplySearch(state, include) ==
    \E t \in ThreadIds :
        /\ threads[t].pc = "new"
        /\ \A u \in ThreadIds : u < t => threads[u].pc # "new"
        /\ LET old == _search_thread
               live == old # NoThread /\ is_alive(old)
           IN  /\ STATUS' = IF live THEN NoStatus ELSE STATUS
               /\ \E marked \in BOOLEAN :
                     /\ marked => live
                     /\ threads' =
                          [u \in ThreadIds |->
                             IF u = t
                             THEN [NewThread EXCEPT
                                     !.pc = "start", !.search_state = state,
                                     !.include = include]
                             ELSE IF running(u)
                             THEN [threads[u] EXCEPT
                                     !.cancelled = TRUE,
                                     !.marked_stopped = @ \/ (u = old /\ marked)]
                             ELSE threads[u]]
        /\ _search_thread' = t
        /\ UNCHANGED <<historyVars, cursor_y, search_state, last>>

\* search, lines 114-122 and 140-141: the locals and the first index
\* the mutant of first_index: the forward loop starts at the cursor row even
\* when the current position is excluded
first_index_inclusive(forward, include, y) ==
    IF forward
    THEN y
    ELSE IF ~ include /\ y > 0 THEN y - 1 ELSE y

\* the row a search looks at first (lines 120-122 and 139-141)
first_index(forward, include, y) ==
    IF forward
    THEN IF ~ include THEN y + 1 ELSE y
    ELSE IF ~ include /\ y > 0 THEN y - 1 ELSE y

SearchStart(t) ==
    /\ threads[t].pc = "start"
    /\ LET me == threads[t]
           forward == me.search_state.direction = "FORWARD"
           first == first_index(forward, me.include, cursor_y)
       IN  /\ search_state' = me.search_state
           /\ STATUS' = me.search_state.text
           /\ threads' = [threads EXCEPT
                            ![t].pc = IF forward THEN "forward" ELSE "backward",
                            ![t].index = first,
                            ![t].new_position = cursor_y,
                            ![t].start_y = cursor_y]
    /\ UNCHANGED <<historyVars, cursor_y, _search_thread, last>>

\* what the forward loop does with the row at me.index, which is in the list
forward_test(me, list) ==
    LET commit == item(list, me.index)
        hit == match_forward(me.search_state.text, commit)
    IN  [me EXCEPT !.tested = commit.oid, !.found = hit,
                   !.new_position = IF hit THEN me.index ELSE @,
                   !.index = IF hit THEN @ ELSE @ + 1,
                   !.pc = IF hit THEN "finish" ELSE "forward"]

\* one pass of the forward loop over a row in the list
SearchForward(t) ==
    /\ threads[t].pc = "forward"
    /\ ~ index_error(commit_list, threads[t].index)
    /\ threads' = [threads EXCEPT ![t] = forward_test(threads[t], commit_list)]
    /\ UNCHANGED <<historyVars, cursor_y, search_state, _search_thread, STATUS, last>>

\* the row is missing: fill_up(screen_height) computes skip and fetches ...
SearchFetch(t) ==
    /\ threads[t].pc = "forward"
    /\ index_error(commit_list, threads[t].index)
    /\ threads' = [threads EXCEPT
                     ![t].pc = "append",
                     ![t].commits = fill_up_fetch(History, ScreenHeight)]
    /\ UNCHANGED <<historyVars, cursor_y, search_state, _search_thread, STATUS, last>>

\* ... then appends; nothing fetched ends the loop, and a row still missing
\* after the fetch raises IndexError, which ends the thread
SearchAppend(t) ==
    /\ threads[t].pc = "append"
    /\ LET me == [threads[t] EXCEPT !.commits = <<>>]
           h1 == fill_up_append(History, threads[t].commits)
       IN  /\ SetHistory(h1)
           /\ threads' =
                [threads EXCEPT ![t] =
                    IF Len(threads[t].commits) = 0
                    THEN [me EXCEPT !.pc = "finish"]
                    ELSE IF index_error(h1.commit_list, me.index)
                    THEN [NewThread EXCEPT !.pc = "crashed"]
                    ELSE forward_test(me, h1.commit_list)]
    /\ UNCHANGED <<cursor_y, search_state, _search_thread, STATUS, last>>

\* one pass of the backward loop, or its end at index < 0
SearchBackward(t) ==
    /\ threads[t].pc = "backward"
    /\ LET me == threads[t] IN
       threads' =
         [threads EXCEPT ![t] =
            IF me.index < 0 THEN [me EXCEPT !.pc = "finish"]
            ELSE IF index_error(commit_list, me.index)
            THEN [NewThread EXCEPT !.pc = "crashed"]
            ELSE LET commit == item(commit_list, me.index)
                     hit == match_backward(me.search_state.text, commit)
                 IN  [me EXCEPT !.tested = commit.oid, !.found = hit,
                                !.new_position = IF hit THEN me.index ELSE @,
                                !.index = IF hit THEN @ ELSE @ - 1,
                                !.pc = IF hit THEN "finish" ELSE "backward"]]
    /\ UNCHANGED <<historyVars, cursor_y, search_state, _search_thread, STATUS, last>>

\* search, lines 151-153: the cursor write and STATUS.clear()
SearchFinish(t) ==
    /\ threads[t].pc = "finish"
    /\ cursor_y' = IF threads[t].new_position # cursor_y
                   THEN threads[t].index ELSE cursor_y
    /\ STATUS' = NoStatus
    /\ threads' = [threads EXCEPT ![t] = [NewThread EXCEPT !.pc = "done"]]
    /\ UNCHANGED <<historyVars, search_state, _search_thread, last>>

SearchStep(t) ==
    \/ SearchStart(t)
    \/ SearchForward(t)
    \/ SearchFetch(t)
    \/ SearchAppend(t)
    \/ SearchBackward(t)
    \/ SearchFinish(t)

\* searches started at any time, beside the renderer
NextSearch ==
    \/ \E line_number \in 0..MaxAmount : Render(line_number)
    \/ \E state \in RacingStates, include \in BOOLEAN : ApplySearch(state, include)
    \/ \E t \in ThreadIds : SearchStep(t)

SpecSearch == Init /\ [][NextSearch]_vars

\* one search at a time, the control thread waiting for it to end
idle == \A t \in ThreadIds : ~ running(t)

NextLone ==
    \/ idle /\ move_cursor_down
    \/ idle /\ move_cursor_up
    \/ idle /\ \E line_number \in 0..MaxAmount : Render(line_number)
    \/ idle /\ \E state \in SearchStates, include \in BOOLEAN :
                  ApplySearch(state, include)
    \/ \E t \in ThreadIds : SearchStep(t)

SpecLone == Init /\ [][NextLone]_vars

\* one search at a time, the control thread moving the cursor and rendering
\* while the search thread runs
NextUser ==
    \/ move_cursor_down
    \/ move_cursor_up
    \/ \E line_number \in 0..MaxAmount : Render(line_number)
    \/ idle /\ \E state \in SearchStates, include \in BOOLEAN :
                  ApplySearch(state, include)
    \/ \E t \in ThreadIds : SearchStep(t)

SpecUser == Init /\ [][NextUser]_vars

\* a started search thread is scheduled until it returns or dies
SpecLoneFair == SpecLone /\ \A t \in ThreadIds : WF_vars(SearchStep(t))

-----------------------------------------------------------------------------
(* HistoryControl.goto_line and goto_last *)

\* goto_line, lines 293-298: the row the argument is turned into
goto_line_target(line_number, count) ==
    IF line_number < 0
    THEN LET n == count + 1 - line_number
         IN  IF n < 0 THEN 0 ELSE n
    ELSE IF line_number >= count THEN count - 1
    ELSE line_number

\* goto_line, lines 300-303
goto_line(line_number) ==
    /\ cursor_y # goto_line_target(line_number, line_count)
    /\ cursor_y' = goto_line_target(line_number, line_count)
    /\ UNCHANGED <<historyVars, search_state, _search_thread, STATUS, threads, last>>

goto_last ==
    /\ cursor_y < line_count
    /\ cursor_y' = line_count - 1
    /\ UNCHANGED <<historyVars, search_state, _search_thread, STATUS, threads, last>>

\* the fold engine and the content provider, with the cursor keys
NextCursor ==
    \/ Next
    \/ move_cursor_down
    \/ move_cursor_up
    \/ \E line_number \in (0 - MaxGoto)..(MaxLineCount + MaxGoto) :
          goto_line(line_number)
    \/ goto_last

SpecCursor == Init /\ [][NextCursor]_vars

-----------------------------------------------------------------------------
(* Row lookups of the view, and Repo.get *)

AllOids == 1..10

\* Repo.get(sth): the record of one commit, classified with no parent record
Get(sth) ==
    /\ last' = [NoOp EXCEPT !.op = "get", !.arg = sth,
                            !.got = to_commit(sth, NoParent)]
    /\ UNCHANGED <<historyVars, searchVars>>

\* History.current(index), lines 99-106: None when the row is missing
Current(index) ==
    /\ last' = [NoOp EXCEPT
                  !.op = "current", !.arg = index, !.pre = History,
                  !.err = IF index_error(commit_list, index) THEN "None" ELSE "",
                  !.got = IF index_error(commit_list, index) THEN NoParent
                          ELSE item(commit_list, index)]
    /\ UNCHANGED <<historyVars, searchVars>>

\* HistoryControl.is_folded(line_number), lines 314-318
IsFolded(line_number) ==
    /\ last' = IF index_error(commit_list, line_number)
               THEN [NoOp EXCEPT !.op = "is_folded", !.arg = line_number,
                                 !.pre = History, !.err = "IndexError"]
               ELSE [NoOp EXCEPT
                       !.op = "is_folded", !.arg = line_number, !.pre = History,
                       !.ret = IF /\ is_merge(item(commit_list, line_number))
                                  /\ is_folded(commit_list, line_number)
                               THEN 1 ELSE 0]
    /\ UNCHANGED <<historyVars, searchVars>>

\* HistoryControl.is_foldable(line_number), lines 320-322
IsFoldable(line_number) ==
    /\ last' = IF index_error(commit_list, line_number)
               THEN [NoOp EXCEPT !.op = "is_foldable", !.arg = line_number,
                                 !.pre = History, !.err = "IndexError"]
               ELSE [NoOp EXCEPT
                       !.op = "is_foldable", !.arg = line_number, !.pre = History,
                       !.ret = IF is_merge(item(commit_list, line_number))
                               THEN 1 ELSE 0]
    /\ UNCHANGED <<historyVars, searchVars>>

\* the fold engine and the content provider, with the lookups of the view
NextView ==
    \/ Next
    \/ \E sth \in AllOids : Get(sth)
    \/ \E index \in 0..MaxRows : Current(index)
    \/ \E line_number \in 0..MaxRows : IsFolded(line_number)
    \/ \E line_number \in 0..MaxRows : IsFoldable(line_number)

SpecView == Init /\ [][NextView]_vars

-----------------------------------------------------------------------------
(* Properties of the fold engine and the lazy content provider *)

Min(a, b) == IF a < b THEN a ELSE b

level_zero(list) == SelectSeq(list, LAMBDA x : x.level = 0)

oids_of(list) == [i \in 1..Len(list) |-> list[i].oid]

\* C1: an unfold of row i directly followed by another toggle_fold of row i
\* leaves commit_list with the length and the records, in order, that it had
\* before the unfold.
C1_RoundTrip ==
    last.round_trip => commit_list = last.origin

C1_Witness ==
    /\ last.round_trip
    /\ last.op = "fold"
    /\ Len(last.pre.commit_list) > Len(commit_list) + 1
    /\ last.arg + 1 < Len(commit_list)

\* C2: no commit identity occurs at two different indices of commit_list.
C2_NoDuplicateCommit ==
    \A i, j \in 1..Len(commit_list) :
        i # j => commit_list[i].oid # commit_list[j].oid

\* C3: the level-0 rows of commit_list, in order, are the first m commits of
\* the top-level first-parent walk, and a fill_up continues that walk right
\* after the level-0 rows present before it, whatever nested rows there are.
C3_LevelZeroIsWalkPrefix ==
    LET zero == level_zero(commit_list) IN
    /\ Len(zero) <= Len(top_level_walk)
    /\ oids_of(zero) = SubSeq(top_level_walk, 1, Len(zero))
    /\ (last.op = "fill_up" /\ last.err = "") =>
          Len(zero) = Min(Len(level_zero(last.pre.commit_list)) + last.arg,
                          Len(top_level_walk))

C3_Witness ==
    /\ last.op = "fill_up"
    /\ last.ret > 0
    /\ \E i \in 1..Len(last.pre.commit_list) : last.pre.commit_list[i].level > 0

\* C6: after an unfold of row i that yields k records, rows i+1..i+k are those
\* records in walker order, the rows that followed i are shifted by k and
\* otherwise unchanged, and every inserted row has level >= level[i] + 1.
C6_UnfoldInsertsInOrder ==
    last.op = "unfold" =>
        LET pre == last.pre.commit_list
            i == last.arg
            yielded == child_history(pre[i + 1])
            k == Len(yielded)
        IN  /\ Len(commit_list) = Len(pre) + k
            /\ SubSeq(commit_list, 1, i + 1) = SubSeq(pre, 1, i + 1)
            /\ SubSeq(commit_list, i + 2, i + 1 + k) = yielded
            /\ SubSeq(commit_list, i + 2 + k, Len(commit_list))
                   = SubSeq(pre, i + 2, Len(pre))
            /\ \A j \in (i + 2)..(i + 1 + k) :
                   commit_list[j].level >= pre[i + 1].level + 1

C6_Witness ==
    /\ last.op = "unfold"
    /\ Len(commit_list) >= Len(last.pre.commit_list) + 2
    /\ last.arg + 1 < Len(last.pre.commit_list)
    /\ \E j \in 1..Len(commit_list) :
           commit_list[j].level > last.pre.commit_list[last.arg + 1].level + 1

\* C7: fill_up(amount) with amount > 0 and r top-level commits not yet
\* materialized raises nothing, returns min(amount, r) and appends exactly
\* the next min(amount, r) commits of the walk, in walk order.
C7_FillUpShortRead ==
    (last.op = "fill_up" /\ last.arg > 0) =>
        LET pre == last.pre.commit_list
            done == Len(level_zero(pre))
            r == Len(top_level_walk) - done
            m == Min(last.arg, r)
        IN  /\ last.err = ""
            /\ last.ret = m
            /\ Len(commit_list) = Len(pre) + m
            /\ SubSeq(commit_list, 1, Len(pre)) = pre
            /\ \A j \in 1..m :
                  /\ commit_list[Len(pre) + j].oid = top_level_walk[done + j]
                  /\ commit_list[Len(pre) + j].level = 0

C7_Witness ==
    /\ last.op = "fill_up"
    /\ last.arg = 3
    /\ last.ret = 2
    /\ Len(commit_list) = Len(last.pre.commit_list) + 2

\* C8: fill_up(amount) with amount <= 0 fails with the invalid-argument error
\* and leaves commit_list, log_entry_list and both column-width aggregates
\* as they were.
C8_FillUpRejects ==
    (last.op = "fill_up" /\ last.arg <= 0) =>
        /\ last.err = "ValueError"
        /\ commit_list = last.pre.commit_list
        /\ log_entry_list = last.pre.log_entry_list
        /\ date_max_len = last.pre.date_max_len
        /\ name_max_len = last.pre.name_max_len

C8_Witness ==
    /\ last.op = "fill_up"
    /\ last.arg = 0
    /\ last.err = "ValueError"
    /\ Len(commit_list) > ScreenHeight

-----------------------------------------------------------------------------
(* Properties of the search navigator *)

\* thread t returns from History.search in this step
ends(t) == running(t) /\ threads'[t].pc = "done"

\* C4: once apply_search has been called while a search was running, that
\* earlier search writes the cursor no more.
C4_CancelledSearchIsSilent ==
    [][\A t \in ThreadIds :
          (threads[t].cancelled /\ threads[t].pc = "finish"
              /\ threads'[t].pc = "done") => cursor_y' = cursor_y]_vars

\* C5: at every moment at most one search is running.
C5_AtMostOneSearch ==
    Cardinality({t \in ThreadIds : running(t)}) <= 1

\* the match predicate of the search, for either direction: the needle is a
\* substring of the short id, the subject, the author name or a branch label
matches(needle, oid) ==
    \/ contains(short_id(oid), needle)
    \/ contains(subject(oid), needle)
    \/ contains(author_name(oid), needle)
    \/ \E label \in branches(oid) : contains(label, needle)

\* the rows a search started at cursor start has to look at, in its direction
candidates(me, list) ==
    LET forward == me.search_state.direction = "FORWARD"
        first == IF forward
                 THEN IF me.include THEN me.start_y ELSE me.start_y + 1
                 ELSE IF ~ me.include /\ me.start_y > 0 THEN me.start_y - 1
                      ELSE me.start_y
    IN  {i \in 0..(Len(list) - 1) :
            /\ IF forward THEN i >= first ELSE i <= first
            /\ matches(me.search_state.text, list[i + 1].oid)}

\* the cursor a search that runs alone has to end with
expected_cursor(me, list) ==
    LET rows == candidates(me, list) IN
    IF rows = {} THEN me.start_y
    ELSE IF me.search_state.direction = "FORWARD"
         THEN CHOOSE i \in rows : \A j \in rows : i <= j
         ELSE CHOOSE i \in rows : \A j \in rows : i >= j

\* C9: a search that runs alone ends with the cursor on the first matching
\* row in its direction from its starting index, or, when no row matches,
\* with the cursor where it was before the search.
C9_LoneSearchResult ==
    [][\A t \in ThreadIds :
          ends(t) => cursor_y' = expected_cursor(threads[t], commit_list')]_vars

\* C10: in both directions the search takes a row for a match exactly when
\* the needle is a substring of its short id, subject, author name or one of
\* its branch labels.
C10_MatchPredicate ==
    \A t \in ThreadIds :
        threads[t].tested # NoCommit =>
            (threads[t].found <=> matches(threads[t].search_state.text,
                                          threads[t].tested))

-----------------------------------------------------------------------------
(* Properties of the search directions and of the status message *)

exclusive_forward(t) ==
    /\ threads[t].search_state.direction = "FORWARD"
    /\ ~ threads[t].include

\* C11: a forward search started with include_current_position = False never
\* looks at the row the cursor was on when it started: its index stays past
\* that row, the match it reports lies past it, and when it returns it
\* either leaves the cursor alone or puts it past that row.
C11_ForwardSkipsStartRow ==
    [][\A t \in ThreadIds :
          /\ (exclusive_forward(t) /\ threads'[t].pc \in {"forward", "append", "finish"})
                => /\ threads'[t].index > threads'[t].start_y
                   /\ threads'[t].found
                        => threads'[t].new_position > threads'[t].start_y
          /\ (exclusive_forward(t) /\ ends(t))
                => \/ cursor_y' = cursor_y
                   \/ cursor_y' > threads[t].start_y]_vars

\* a forward search that excludes the current position started on a row that
\* matches its needle and has found its match further down
C11_Witness ==
    \E t \in ThreadIds :
        /\ exclusive_forward(t)
        /\ threads[t].pc = "finish"
        /\ threads[t].found
        /\ threads[t].start_y >= 0
        /\ threads[t].start_y < Len(commit_list)
        /\ match_forward(threads[t].search_state.text,
                         item(commit_list, threads[t].start_y))

\* a step taken by the search thread t
steps(t) == running(t) /\ threads'[t] # threads[t]

\* C12: a backward search, whatever the cursor position and the value of
\* include_current_position, never fetches (no step of it changes the
\* materialized sequence) and never sets the cursor to a negative index.
C12_BackwardStaysInList ==
    [][\A t \in ThreadIds :
          (threads[t].search_state.direction = "BACKWARD" /\ steps(t))
             => /\ commit_list' = commit_list
                /\ log_entry_list' = log_entry_list
                /\ cursor_y' >= 0]_vars

\* the search thread t is between STATUS.set_status (line 119) and its return
searching(t) == threads[t].pc \in {"forward", "append", "backward", "finish"}

\* C13: the status message is shown exactly while a search is running: it is
\* set while a search is between its start and its end, and it is clear
\* whenever no search thread is running.
C13_StatusWhileSearching ==
    /\ (\E t \in ThreadIds : searching(t)) => STATUS # NoStatus
    /\ idle => STATUS = NoStatus

-----------------------------------------------------------------------------
(* Properties of the classifier and of the row lookups *)

\* the kind the parent count and the merge-base lookup call for
kind_by_parents(oid) ==
    LET p == parents(oid) IN
    CASE Len(p) = 0 -> "Initial"
      [] Len(p) = 1 -> "Regular"
      [] Len(p) = 2 -> IF git_merge_base(p[1], p[2]) = NoCommit
                       THEN "Subtree" ELSE "Merge"
      [] OTHER -> "Octopus"

Lookups == {"current", "get_line", "toggle_fold", "is_folded", "is_foldable"}

\* C15: a row lookup with an index at or past the end of the materialized
\* sequence reports "no such row" (None, or the blank line of get_line)
\* instead of failing, for current, get_line, toggle_fold, is_folded and
\* is_foldable alike.
C15_LookupPastEnd ==
    (last.op \in Lookups /\ last.arg >= Len(commit_list))
        => last.err \in {"None", "blank"}

-----------------------------------------------------------------------------
(* Properties of the levels *)

\* the length of the longest run of rows directly after the 1-based row i
\* whose level is greater than the level of row i
run_after(list, i) ==
    CHOOSE n \in 0..(Len(list) - i) :
        /\ \A k \in 1..n : list[i + k].level > list[i].level
        /\ i + n < Len(list) => list[i + n + 1].level <= list[i].level

\* C16: a fold at row i removes exactly the longest run of rows directly
\* after i whose level is greater than level[i]; the rows up to i and the
\* rows from the first one not deeper than i on keep their identity, order
\* and level, whatever other folds are open in the sequence.
C16_FoldRemovesRun ==
    last.op = "fold" =>
        LET pre == last.pre.commit_list
            i == last.arg + 1
            n == run_after(pre, i)
        IN  /\ n >= 1
            /\ commit_list = SubSeq(pre, 1, i) \o SubSeq(pre, i + n + 1, Len(pre))

\* a fold has removed a run of several rows, one of them a nested foldable
\* with its own rows, rows follow the folded row, and a sibling fold
\* further down is still open
C16_Witness ==
    /\ last.op = "fold"
    /\ Len(last.pre.commit_list) - Len(commit_list) >= 3
    /\ \E k \in 1..Len(last.pre.commit_list) - 2 - last.arg :
          last.pre.commit_list[last.arg + 2 + k].level
              > last.pre.commit_list[last.arg + 2].level
    /\ \E j \in (last.arg + 2)..Len(commit_list) : commit_list[j].level > 0

\* the 1-based rows before row i that can own it: one level up, foldable,
\* unfolded, and with nothing but deeper rows from there to row i
owners(list, i) ==
    {j \in 1..(i - 1) :
        /\ list[j].level = list[i].level - 1
        /\ is_merge(list[j])
        /\ ~ is_folded(list, j - 1)
        /\ \A k \in (j + 1)..i : list[k].level > list[j].level}

C18_WalkLevels ==
    /\ last.op = "fill_up" =>
          \A m \in (Len(last.pre.commit_list) + 1)..Len(commit_list) :
              commit_list[m].level = 0
    /\ last.op = "unfold" =>
          LET pre == last.pre.commit_list
              i == last.arg + 1
          IN  \A m \in 1..(Len(commit_list) - Len(pre)) :
                  commit_list[i + m].level = pre[i].level + 1

-----------------------------------------------------------------------------
(* Properties of the fetches of the search thread *)

\* the search thread t is inside fill_up, between computing skip with the
\* fetch and appending the fetched rows
fetching(t) == threads[t].pc = "append"

top_level_once(list) ==
    \A i, j \in 1..Len(list) :
        (i # j /\ list[i].level = 0 /\ list[j].level = 0)
            => list[i].oid # list[j].oid

\* C19: no two executions of fill_up overlap: while a search thread is
\* between computing skip and appending what it fetched, no other fill_up
\* (of the control thread through get_line, or of another search thread)
\* changes the sequence, and so no top-level commit is appended twice.
C19_FetchesDoNotOverlap ==
    [][/\ \A t \in ThreadIds :
             (fetching(t) /\ commit_list' # commit_list)
                => threads'[t].pc # "append"
       /\ top_level_once(commit_list) => top_level_once(commit_list')]_vars

\* the needle matches no commit of the repository
matches_nothing(needle) == \A oid \in AllOids : ~ matches(needle, oid)

\* C20: on this finite history a forward search whose needle matches no row
\* eventually stops, from every cursor position it is started at: it
\* fetches until a fetch returns nothing and then returns normally, the
\* search no longer running.
C20_ForwardSearchStops ==
    /\ \A t \in ThreadIds :
          (/\ threads[t].pc = "start"
           /\ threads[t].search_state.direction = "FORWARD"
           /\ matches_nothing(threads[t].search_state.text))
              ~> (threads[t].pc = "done")
    /\ [][\A t \in ThreadIds :
            (/\ running(t)
             /\ threads[t].search_state.direction = "FORWARD"
             /\ matches_nothing(threads[t].search_state.text))
                => threads'[t].pc # "crashed"]_vars

-----------------------------------------------------------------------------
(* Properties of the cursor, of line_count and of the two lists *)

\* C21: after any sequence of move_cursor_up, move_cursor_down, goto_line(n)
\* for any integer n, negative ones included, and goto_last, the cursor row
\* is at least 0 and below line_count.
C21_CursorInRange ==
    /\ 0 <= cursor_y
    /\ cursor_y < line_count

\* C22: toggle_fold keeps line_count in step with the rows it adds and
\* removes: an unfold that inserts k rows raises line_count by exactly k, a
\* fold that removes k rows lowers it by k, and so an unfold followed by the
\* fold of the same row leaves line_count as it was.
C22_LineCountInStep ==
    /\ last.op = "unfold" =>
          line_count - last.pre.line_count
              = Len(commit_list) - Len(last.pre.commit_list)
    /\ last.op = "fold" =>
          last.pre.line_count - line_count
              = Len(last.pre.commit_list) - Len(commit_list)

\* C23: after every completed fill_up, get_line, unfold and fold the two
\* lists have the same length and log_entry_list[i] is the entry built for
\* commit_list[i], for every index i.
C23_ListsInSync ==
    /\ Len(log_entry_list) = Len(commit_list)
    /\ \A i \in 1..Len(commit_list) :
          log_entry_list[i].commit = commit_list[i]

\* a fold has removed rows from the middle of the lists while another fold
\* is open and fetched rows follow
C23_Witness ==
    /\ last.op = "fold"
    /\ last.arg + 1 < Len(commit_list)
    /\ Len(last.pre.commit_list) - Len(commit_list) >= 2
    /\ \E i \in 1..Len(commit_list) : commit_list[i].level > 0
    /\ Len(log_entry_list) >= 6

=============================================================================
